---------------------------- MODULE Spec2Model ----------------------------
(***************************************************************************)
(* Session-addressed streaming transport of fastapi-sse-mcp.               *)
(*                                                                         *)
(* Two Starlette applications are modelled, one per behaviour:             *)
(*   server = "http"  create_http_stream_server (src/app/http_stream.py),  *)
(*                    the NDJSON variant;                                  *)
(*   server = "sse"   create_sse_server (src/app/sse.py), the SSE variant. *)
(* Each GET stream request is a connection c \in Conns, each POST to the   *)
(* message endpoint is a request p \in Posts.  Every action is one run of  *)
(* a handler between two of its await points, so the interleavings TLC     *)
(* explores are those asyncio's event loop can produce.                    *)
(*                                                                         *)
(* The protocol runtime (mcp._mcp_server.run) and the client are the       *)
(* environment: they act nondeterministically and under no fairness.       *)
(* The ASGI `send` of a connection fails (raises) only once the client of  *)
(* that connection is gone, and a client that is gone stays gone.          *)
(***************************************************************************)
EXTENDS Integers, Sequences, FiniteSets, TLC

(* ------------------------------ bounds -------------------------------- *)
\* GET stream requests handled in one run of the application
MaxConns == 2
\* POST requests handled in one run of the application
MaxPosts == 2
\* messages the protocol runtime puts on one session's outbound channel
MaxOut == 1
\* keepalive pings the SSE loop sends on one connection
MaxPings == 1
\* messages the runtime produces in a run that follows one timed connection
MaxOrdered == 2
\* seconds the event loop's clock advances in one step
TickStep == 8
\* seconds a timed run lasts
MaxTime == 16

Conns == 1..MaxConns
Posts == 1..MaxPosts

(* --------------------------- program constants ------------------------ *)
\* number of hex digits of UUID.hex, the form the handshake URL carries
HexLen == 32
\* seconds between keepalive pings: `now - last_ping > 15`
PingInterval == 15

(* ------------------------------ strings ------------------------------- *)
\* A query-string value is a sequence of one-character strings.
HexDigits == <<"0","1","2","3","4","5","6","7","8","9","a","b","c","d","e","f">>

RECURSIVE ToHex(_, _)
\* the n low hex digits of u, most significant first ('%032x' % int for n = 32)
ToHex(u, n) == IF n = 0 THEN <<>>
               ELSE Append(ToHex(u \div 16, n - 1), HexDigits[(u % 16) + 1])

\* uuid.UUID.hex
UuidHex(u) == ToHex(u, HexLen)

DigitValue(ch) == CHOOSE i \in 0..15 : HexDigits[i + 1] = ch

RECURSIVE HexValue(_)
\* int(hex, 16) of a sequence of hex digits
HexValue(s) == IF s = <<>> THEN 0
               ELSE 16 * HexValue(SubSeq(s, 1, Len(s) - 1)) + DigitValue(s[Len(s)])

IsHyphen(ch) == ch = "-"
NotHyphen(ch) == ~IsHyphen(ch)

\* uuid.UUID(hex): hyphens are dropped, then exactly 32 hex digits are
\* required; anything else raises ValueError
UuidParses(s) ==
    LET h == SelectSeq(s, NotHyphen)
    IN  /\ Len(h) = HexLen
        /\ \A i \in 1..Len(h) : \E d \in 1..16 : HexDigits[d] = h[i]

UuidOf(s) == HexValue(SelectSeq(s, NotHyphen))

\* the strings clients put in ?session_id=
DeadBeef == <<"d","e","a","d","b","e","e","f">>


(* ------------------------------ requests ------------------------------ *)
\* GET stream requests: URL scheme, Host header / netloc, X-Forwarded-Proto
Request(scheme, host, xfp, query) ==
    [scheme |-> scheme, host |-> host, xfp |-> xfp, query |-> query]
StreamRequests ==
    { Request("http", "h1", "none", <<>>), Request("http", "h2", "https", <<>>) }

\* ?session_id= of a POST: absent, empty, too short to be a UUID, or the hex
\* of a UUID (one more than the connections can ever be issued)
Param(given, value) == [given |-> given, value |-> value]
PostParams ==
    { Param(FALSE, <<>>), Param(TRUE, <<>>), Param(TRUE, DeadBeef) }
      \cup { Param(TRUE, UuidHex(u)) : u \in 1..(MaxConns + 1) }

\* POST bodies: one JSON-RPC message, or bytes that are not JSON
PostBodies == { "message", "not_json" }

\* ?session_id= of a GET /sse/ request (the client chooses it)
SseQueries == { <<>>, UuidHex(1) }
SseRequests ==
    { Request("http", "h1", "none", <<>>), Request("http", "h2", "https", UuidHex(1)) }

\* what the protocol runtime puts on the outbound channel
RuntimeMessages == { "dict", "object" }

(* -------------------------------- state ------------------------------- *)
VARIABLES
    server,      \* which application was created: "http" or "sse"
    load,        \* the requests this run of the application gets to handle
    transport,   \* http: the nonlocal `transport` of create_http_stream_server,
                 \*   <<>> for None, else <<endpoint>>
    registry,    \* _read_stream_writers of the transport the POST route uses:
                 \*   UUID -> connection whose read_stream_writer is stored
    issued,      \* number of uuid4() values drawn so far
    cpc,         \* position of each connection's handler
    creq,        \* the GET request of each connection
    session_id,  \* http: the UUID of the connection, 0 before it is drawn
    session_uri, \* the reply-to URL of the connection
    gone,        \* the client of the connection has disconnected
    wire,        \* body frames written to the connection, in order
    sendq,       \* http: POSTs parked in read_stream_writer.send (buffer 0)
    inbound,     \* everything handed to the session's inbound channel
    outq,        \* sse: writer_queue
    produced,    \* number of messages the runtime has put on the outbound channel
    bgpc,        \* sse: position of the _handle_connection task
    httpEvent,   \* sse: the GET's own http.request event is still unread
    now,         \* sse: asyncio.get_event_loop().time(), in seconds
    last_ping,   \* sse: last_ping of the _handle_connection task
    last_frame,  \* history: when the last application or keepalive frame was written
    raised,      \* history: what raised in the handler: "none", "connect",
                 \*   "runtime" or "cancel"
    errors,      \* history: number of error frames the handler tried to send
    escaped,     \* history: an exception left the handler
    ppc,         \* position of each POST's handler
    preq,        \* the POST request: [param, body]
    pwriter,     \* the connection whose writer the POST looked up, 0 for none
    pstatus,     \* the HTTP status the POST was answered with, 0 for none
    pinit,       \* history: the transport was initialised when the POST was dispatched
    popen,       \* history: the open connections the POST's session id addressed
    pknown       \* history: the POST's session id was registered when dispatched

connVars == <<cpc, creq, session_id, session_uri, gone, wire, outq, produced,
              bgpc, httpEvent>>
postVars == <<ppc, preq, pwriter, pstatus, pinit, popen, pknown>>
clockVars == <<now, last_ping, last_frame>>
histVars == <<raised, errors, escaped>>
vars == <<server, load, transport, registry, issued, connVars, sendq, inbound, postVars,
          clockVars, histVars>>

(* ------------------------------- values ------------------------------- *)
Endpoint(scheme, host, path) == [scheme |-> scheme, host |-> host, path |-> path]
NoEndpoint == Endpoint("", "", "")

\* f"{endpoint}?session_id={id}"
SessionUri(endpoint, id) == [endpoint |-> endpoint, session_id |-> id]
NoUri == SessionUri(NoEndpoint, <<>>)

NoRequest == Request("", "", "none", <<>>)
NoPost == [param |-> Param(FALSE, <<>>), body |-> "unread"]

\* a body frame: its kind, the URL it carries (handshake) and the number of
\* the runtime message it encodes (application frame, else 0)
Frame(kind, data, msg) == [kind |-> kind, data |-> data, msg |-> msg]

\* the first line iter_content yields: json.dumps({"endpoint": session_uri})
HandshakeLine(uri) == Frame("endpoint", uri, 0)

\* event: endpoint\ndata: <url>\n\n
EndpointEvent(uri) == Frame("endpoint", uri, 0)

\* ": ping - <now>\n\n"
PingEvent == Frame("ping", NoUri, 0)

\* event: <event>\ndata: <json>\n\n of a dict taken from writer_queue
MessageEvent(m) == Frame("message", NoUri, m.n)

\* event: error\ndata: {"error": ...}\n\n
ErrorEvent == Frame("error", NoUri, 0)

(* ------------------------------ registry ------------------------------ *)
EmptyRegistry == [u \in {} |-> 0]

\* self._read_stream_writers[session_id] = read_stream_writer
Register(reg, id, c) ==
    [u \in (DOMAIN reg) \cup {id} |-> IF u = id THEN c ELSE reg[u]]

\* self._read_stream_writers.pop(session_id, None)
Unregister(reg, id) == [u \in (DOMAIN reg) \ {id} |-> reg[u]]

\* self._read_stream_writers.get(session_id): 0 stands for None
Lookup(reg, id) == IF id \in DOMAIN reg THEN reg[id] ELSE 0

(* -------------------------------- Init -------------------------------- *)
\* The requests one run handles.  The NDJSON application, whose connections
\* and POSTs share the transport and its registry, gets MaxConns stream
\* requests and MaxPosts POSTs.  In the SSE application every connection has
\* a transport of its own and the POST route reads a registry no connection
\* writes, so a run has either MaxConns connections, or one connection and
\* MaxPosts POSTs, with up to MaxOut runtime messages per session and the
\* clock standing still; or it follows one connection for MaxTime seconds,
\* with up to MaxOrdered runtime messages.
Workload(conns, posts, out, time) ==
    [conns |-> conns, posts |-> posts, out |-> out, time |-> time]
Workloads(app) ==
    IF app = "http"
    THEN { Workload(MaxConns, MaxPosts, 0, 0) }
    ELSE { Workload(MaxConns, 0, MaxOut, 0), Workload(1, MaxPosts, MaxOut, 0),
           Workload(1, 0, MaxOrdered, MaxTime) }

\* the state after create_http_stream_server / create_sse_server: no
\* transport yet (http), an empty registry, no request handled
Created ==
    /\ transport = <<>>
    /\ registry = EmptyRegistry
    /\ issued = 0
    /\ cpc = [c \in Conns |-> "idle"]
    /\ creq = [c \in Conns |-> NoRequest]
    /\ session_id = [c \in Conns |-> 0]
    /\ session_uri = [c \in Conns |-> NoUri]
    /\ gone = [c \in Conns |-> FALSE]
    /\ wire = [c \in Conns |-> <<>>]
    /\ sendq = [c \in Conns |-> <<>>]
    /\ inbound = [c \in Conns |-> <<>>]
    /\ outq = [c \in Conns |-> <<>>]
    /\ produced = [c \in Conns |-> 0]
    /\ bgpc = [c \in Conns |-> "none"]
    /\ httpEvent = [c \in Conns |-> FALSE]
    /\ now = 0
    /\ last_ping = [c \in Conns |-> 0]
    /\ last_frame = [c \in Conns |-> 0]
    /\ raised = [c \in Conns |-> "none"]
    /\ errors = [c \in Conns |-> 0]
    /\ escaped = [c \in Conns |-> FALSE]
    /\ ppc = [p \in Posts |-> "idle"]
    /\ preq = [p \in Posts |-> NoPost]
    /\ pwriter = [p \in Posts |-> 0]
    /\ pstatus = [p \in Posts |-> 0]
    /\ pinit = [p \in Posts |-> FALSE]
    /\ popen = [p \in Posts |-> {}]
    /\ pknown = [p \in Posts |-> FALSE]

Init ==
    /\ server \in {"http", "sse"}
    /\ load \in Workloads(server)
    /\ Created

\* requests are numbered in the order they arrive
NextConn(c) ==
    /\ c <= load.conns
    /\ cpc[c] = "idle"
    /\ IF c = 1 THEN TRUE ELSE cpc[c - 1] # "idle"
NextPost(p) ==
    /\ p <= load.posts
    /\ ppc[p] = "idle"
    /\ IF p = 1 THEN TRUE ELSE ppc[p - 1] # "idle"

\* the connection is open: its handshake has been written, its client is
\* still there and its handler has not finished
StreamOpen(c) ==
    /\ cpc[c] \notin {"idle", "done"}
    /\ ~gone[c]
    /\ wire[c] # <<>>

\* the session id names an entry of the registry the POST route reads
Known(param) ==
    /\ param.given
    /\ UuidParses(param.value)
    /\ UuidOf(param.value) \in DOMAIN registry

\* the open connections whose handshake URL announced session id `value`
Addressed(param) ==
    { c \in Conns : /\ param.given
                    /\ StreamOpen(c)
                    /\ session_uri[c].session_id = param.value }


(* ======================= NDJSON variant (http) ======================== *)

\* uuid4(): a value never drawn before (the ids are only compared)
Uuid4 == issued + 1

\* handle_stream, the lazily created transport: only the first stream
\* request sets it, from request.url.scheme and request.url.netloc
TransportFor(r) ==
    IF transport = <<>>
    THEN <<Endpoint(r.scheme, r.host, "/http/messages/")>>
    ELSE transport

\* handle_stream up to connect_stream's `await response(...)`: the transport
\* is created on the first request, the streams are created, the session id
\* is drawn and the writer is registered (no await in between)
HandleStream(c, r) ==
    /\ server = "http"
    /\ NextConn(c)
    /\ transport' = TransportFor(r)
    /\ issued' = issued + 1
    /\ session_id' = [session_id EXCEPT ![c] = Uuid4]
    /\ session_uri' = [session_uri EXCEPT
                         ![c] = SessionUri(TransportFor(r)[1], UuidHex(Uuid4))]
    /\ registry' = Register(registry, Uuid4, c)
    /\ creq' = [creq EXCEPT ![c] = r]
    /\ cpc' = [cpc EXCEPT ![c] = "start"]
    /\ UNCHANGED <<server, load, clockVars, histVars, gone, wire, outq, produced, bgpc, httpEvent,
                   sendq, inbound, postVars>>

\* StreamingResponse: http.response.start is sent
ResponseStart(c) ==
    /\ server = "http"
    /\ cpc[c] = "start"
    /\ ~gone[c]
    /\ cpc' = [cpc EXCEPT ![c] = "handshake"]
    /\ UNCHANGED <<server, load, clockVars, histVars, transport, registry, issued, creq, session_id,
                   session_uri, gone, wire, outq, produced, bgpc, httpEvent,
                   sendq, inbound, postVars>>

\* iter_content's first yield is written; the generator then waits on
\* write_stream_reader, whose sending end nobody holds before the response
\* has returned
IterContent(c) ==
    /\ server = "http"
    /\ cpc[c] = "handshake"
    /\ ~gone[c]
    /\ wire' = [wire EXCEPT ![c] = Append(@, HandshakeLine(session_uri[c]))]
    /\ cpc' = [cpc EXCEPT ![c] = "streaming"]
    /\ UNCHANGED <<server, load, clockVars, histVars, transport, registry, issued, creq, session_id,
                   session_uri, gone, outq, produced, bgpc, httpEvent,
                   sendq, inbound, postVars>>

\* the client closes the connection (either variant)
ClientDisconnect(c) ==
    /\ cpc[c] \notin {"idle", "done"}
    /\ ~gone[c]
    /\ gone' = [gone EXCEPT ![c] = TRUE]
    /\ UNCHANGED <<server, load, clockVars, histVars, transport, registry, issued, cpc, creq, session_id,
                   session_uri, wire, outq, produced, bgpc, httpEvent,
                   sendq, inbound, postVars>>

\* StreamingResponse sees http.disconnect and returns; connect_stream
\* yields the streams and handle_stream starts the protocol runtime
ResponseDisconnected(c) ==
    /\ server = "http"
    /\ cpc[c] \in {"start", "handshake", "streaming"}
    /\ gone[c]
    /\ cpc' = [cpc EXCEPT ![c] = "running"]
    /\ UNCHANGED <<server, load, clockVars, histVars, transport, registry, issued, creq, session_id,
                   session_uri, gone, wire, outq, produced, bgpc, httpEvent,
                   sendq, inbound, postVars>>

\* `await response(scope, receive, send)` raises (send fails on the closed
\* connection): the exception leaves connect_stream before its try block,
\* so the finally clause does not run
ResponseRaises(c) ==
    /\ server = "http"
    /\ cpc[c] \in {"start", "handshake"}
    /\ gone[c]
    /\ cpc' = [cpc EXCEPT ![c] = "done"]
    /\ raised' = [raised EXCEPT ![c] = "connect"]
    /\ escaped' = [escaped EXCEPT ![c] = TRUE]
    /\ UNCHANGED <<server, load, clockVars, errors, transport, registry, issued, creq, session_id,
                   session_uri, gone, wire, outq, produced, bgpc, httpEvent,
                   sendq, inbound, postVars>>

\* the protocol runtime receives from read_stream: the POST parked first in
\* read_stream_writer.send hands its message over and goes on
ServerReceive(c) ==
    /\ server = "http"
    /\ cpc[c] = "running"
    /\ sendq[c] # <<>>
    /\ inbound' = [inbound EXCEPT
                     ![c] = Append(@, [kind |-> "message", post |-> Head(sendq[c])])]
    /\ sendq' = [sendq EXCEPT ![c] = Tail(@)]
    /\ ppc' = [ppc EXCEPT ![Head(sendq[c])] = "sent"]
    /\ UNCHANGED <<server, load, clockVars, histVars, transport, registry, issued, connVars, preq,
                   pwriter, pstatus, pinit, popen, pknown>>

\* mcp._mcp_server.run returns or raises: connect_stream's finally pops the
\* session and handle_stream ends
ServerRunEnds(c) ==
    /\ server = "http"
    /\ cpc[c] = "running"
    /\ registry' = Unregister(registry, session_id[c])
    /\ cpc' = [cpc EXCEPT ![c] = "done"]
    /\ \E how \in {"returns", "raises"} :
          /\ raised' = [raised EXCEPT ![c] = IF how = "raises" THEN "runtime" ELSE @]
          /\ escaped' = [escaped EXCEPT ![c] = how = "raises"]
    /\ UNCHANGED <<server, load, clockVars, errors, transport, issued, creq, session_id, session_uri,
                   gone, wire, outq, produced, bgpc, httpEvent, sendq,
                   inbound, postVars>>

\* request.json() then types.JSONRPCMessage(**data): does the body decode
Decodes(body) == body = "message"

\* the status of handle_post_message's early returns, 0 when it goes on to
\* read the body; 500 is Starlette's answer to the uncaught ValueError of
\* UUID(session_param)
PostMessageStatus(param) ==
    IF ~param.given \/ param.value = <<>> THEN 400
    ELSE IF ~UuidParses(param.value) THEN 500
    ELSE IF Lookup(registry, UuidOf(param.value)) = 0 THEN 404
    ELSE 0

\* HandleMessagesStatus taking a transport without sessions for one that
\* was never initialised
HandleMessagesStatusNoSessions(param) ==
    IF transport = <<>> \/ DOMAIN registry = {} THEN 503
    ELSE PostMessageStatus(param)

\* handle_messages: 503 while the transport is None, else
\* handle_post_message up to `await request.json()`
HandleMessagesStatus(param) ==
    IF transport = <<>> THEN 503 ELSE PostMessageStatus(param)

HandleMessages(p, param) ==
    /\ server = "http"
    /\ NextPost(p)
    /\ preq' = [preq EXCEPT ![p].param = param]
    /\ pinit' = [pinit EXCEPT ![p] = transport # <<>>]
    /\ popen' = [popen EXCEPT ![p] = Addressed(param)]
    /\ pknown' = [pknown EXCEPT ![p] = Known(param)]
    /\ pstatus' = [pstatus EXCEPT ![p] = HandleMessagesStatus(param)]
    /\ IF HandleMessagesStatus(param) # 0
       THEN /\ ppc' = [ppc EXCEPT ![p] = "done"]
            /\ UNCHANGED pwriter
       ELSE /\ ppc' = [ppc EXCEPT ![p] = "body"]
            /\ pwriter' = [pwriter EXCEPT
                             ![p] = Lookup(registry, UuidOf(param.value))]
    /\ UNCHANGED <<server, load, clockVars, histVars, transport, registry, issued, connVars, sendq, inbound>>

\* handle_post_message once `await request.json()` has read the body: a
\* body that does not decode raises (500); a message is offered to the
\* writer, which has no buffer, so the handler parks until the runtime
\* receives
PostBody(p, body) ==
    /\ server = "http"
    /\ ppc[p] = "body"
    /\ preq' = [preq EXCEPT ![p].body = body]
    /\ IF Decodes(body)
       THEN /\ sendq' = [sendq EXCEPT ![pwriter[p]] = Append(@, p)]
            /\ ppc' = [ppc EXCEPT ![p] = "sending"]
            /\ UNCHANGED pstatus
       ELSE /\ pstatus' = [pstatus EXCEPT ![p] = 500]
            /\ ppc' = [ppc EXCEPT ![p] = "done"]
            /\ UNCHANGED sendq
    /\ UNCHANGED <<server, load, clockVars, histVars, transport, registry, issued, connVars, inbound,
                   pwriter, pinit, popen, pknown>>

\* writer.send has returned: Response(status_code=204)
PostAccepted(p) ==
    /\ server = "http"
    /\ ppc[p] = "sent"
    /\ pstatus' = [pstatus EXCEPT ![p] = 204]
    /\ ppc' = [ppc EXCEPT ![p] = "done"]
    /\ UNCHANGED <<server, load, clockVars, histVars, transport, registry, issued, connVars, sendq,
                   inbound, preq, pwriter, pinit, popen, pknown>>

HttpNext ==
    \/ \E c \in Conns, r \in StreamRequests : HandleStream(c, r)
    \/ \E c \in Conns : ResponseStart(c)
    \/ \E c \in Conns : IterContent(c)
    \/ \E c \in Conns : ResponseDisconnected(c)
    \/ \E c \in Conns : ResponseRaises(c)
    \/ \E c \in Conns : ServerReceive(c)
    \/ \E c \in Conns : ServerRunEnds(c)
    \/ \E p \in Posts, param \in PostParams : HandleMessages(p, param)
    \/ \E p \in Posts, body \in PostBodies : PostBody(p, body)
    \/ \E p \in Posts : PostAccepted(p)

(* ============================ SSE variant ============================= *)

\* handle_sse: scheme from X-Forwarded-Proto when present, else the URL's
SseScheme(r) == IF r.xfp = "none" THEN r.scheme ELSE r.xfp

\* handle_sse: full_uri of the per-request CustomSseServerTransport
SseEndpoint(r) == Endpoint(SseScheme(r), r.host, "/messages/")

\* connect_sse: the endpoint URL carries the session_id of the GET's own
\* query string, "" when there is none
SseSessionUri(r) == SessionUri(SseEndpoint(r), r.query)

\* handle_sse creates a transport of its own and enters connect_sse, which
\* first awaits the send of http.response.start
HandleSse(c, r) ==
    /\ server = "sse"
    /\ NextConn(c)
    /\ creq' = [creq EXCEPT ![c] = r]
    /\ cpc' = [cpc EXCEPT ![c] = "start"]
    /\ UNCHANGED <<server, load, clockVars, histVars, transport, registry, issued, session_id,
                   session_uri, gone, wire, outq, produced, bgpc, httpEvent,
                   sendq, inbound, postVars>>

\* ConnectSseStart with the initial ping sent ahead of the endpoint event
ConnectSseStartPingFirst(c) ==
    /\ server = "sse"
    /\ cpc[c] = "start"
    /\ ~gone[c]
    /\ wire' = [wire EXCEPT ![c] = Append(@, PingEvent)]
    /\ cpc' = [cpc EXCEPT ![c] = "handshake"]
    /\ UNCHANGED <<server, load, clockVars, histVars, transport, registry, issued, creq, session_id,
                   session_uri, gone, outq, produced, bgpc, httpEvent,
                   sendq, inbound, postVars>>

\* connect_sse: http.response.start is sent
ConnectSseStart(c) ==
    /\ server = "sse"
    /\ cpc[c] = "start"
    /\ ~gone[c]
    /\ cpc' = [cpc EXCEPT ![c] = "handshake"]
    /\ UNCHANGED <<server, load, clockVars, histVars, transport, registry, issued, creq, session_id,
                   session_uri, gone, wire, outq, produced, bgpc, httpEvent,
                   sendq, inbound, postVars>>

\* connect_sse: the queues are created and the endpoint event is sent
ConnectSseEndpoint(c) ==
    /\ server = "sse"
    /\ cpc[c] = "handshake"
    /\ ~gone[c]
    /\ session_uri' = [session_uri EXCEPT ![c] = SseSessionUri(creq[c])]
    /\ wire' = [wire EXCEPT ![c] = Append(@, EndpointEvent(SseSessionUri(creq[c])))]
    /\ cpc' = [cpc EXCEPT ![c] = "ping"]
    /\ UNCHANGED <<server, load, clockVars, histVars, transport, registry, issued, creq, session_id,
                   gone, outq, produced, bgpc, httpEvent, sendq, inbound,
                   postVars>>

\* connect_sse: the initial ping is sent, the _handle_connection task is
\* created and the streams are yielded: handle_sse starts the runtime
ConnectSsePing(c) ==
    /\ server = "sse"
    /\ cpc[c] = "ping"
    /\ ~gone[c]
    /\ wire' = [wire EXCEPT ![c] = Append(@, PingEvent)]
    /\ bgpc' = [bgpc EXCEPT ![c] = "top"]
    /\ httpEvent' = [httpEvent EXCEPT ![c] = TRUE]
    /\ cpc' = [cpc EXCEPT ![c] = "running"]
    /\ last_ping' = [last_ping EXCEPT ![c] = now]
    /\ last_frame' = [last_frame EXCEPT ![c] = now]
    /\ UNCHANGED <<server, load, now, histVars, transport, registry, issued, creq, session_id,
                   session_uri, gone, outq, produced, sendq, inbound, postVars>>

\* one of connect_sse's sends raises on the closed connection: the
\* exception reaches handle_sse's except clause
ConnectSseRaises(c) ==
    /\ server = "sse"
    /\ cpc[c] \in {"start", "handshake", "ping"}
    /\ gone[c]
    /\ cpc' = [cpc EXCEPT ![c] = "error"]
    /\ raised' = [raised EXCEPT ![c] = "connect"]
    /\ UNCHANGED <<server, load, clockVars, errors, escaped, transport, registry, issued, creq, session_id,
                   session_uri, gone, wire, outq, produced, bgpc, httpEvent,
                   sendq, inbound, postVars>>

\* RuntimeSend with the new message put at the head of the queue
RuntimeSendLifo(c, kind) ==
    /\ server = "sse"
    /\ cpc[c] = "running"
    /\ produced[c] < load.out
    /\ produced' = [produced EXCEPT ![c] = @ + 1]
    /\ outq' = [outq EXCEPT ![c] = <<[kind |-> kind, n |-> produced[c] + 1]>> \o @]
    /\ UNCHANGED <<server, load, clockVars, histVars, transport, registry, issued, cpc, creq, session_id,
                   session_uri, gone, wire, bgpc, httpEvent, sendq, inbound,
                   postVars>>

\* the protocol runtime puts a message on the writer (writer_queue.put)
RuntimeSend(c, kind) ==
    /\ server = "sse"
    /\ cpc[c] = "running"
    /\ produced[c] < load.out
    /\ produced' = [produced EXCEPT ![c] = @ + 1]
    /\ outq' = [outq EXCEPT ![c] = Append(@, [kind |-> kind, n |-> produced[c] + 1])]
    /\ UNCHANGED <<server, load, clockVars, histVars, transport, registry, issued, cpc, creq, session_id,
                   session_uri, gone, wire, bgpc, httpEvent, sendq, inbound,
                   postVars>>

\* number of keepalive pings the loop has written (the initial ping of
\* connect_sse is the second frame of the wire)
PingsSent(c) ==
    Cardinality({ i \in 3..Len(wire[c]) : wire[c][i].kind = "ping" })

\* _handle_connection: get_nowait takes the next message; only a dict is
\* formatted and sent, anything else is dropped
Dequeued(c) == outq[c] # <<>>
SendsMessage(c) == Dequeued(c) /\ Head(outq[c]).kind = "dict"

\* the frames one pass of the loop writes before it awaits receive():
\* the dequeued message if it is a dict, then a ping if `due`
LoopFrames(c, due) ==
    (IF SendsMessage(c) THEN <<MessageEvent(Head(outq[c]))>> ELSE <<>>)
      \o (IF due THEN <<PingEvent>> ELSE <<>>)

\* _handle_connection: `now - last_ping > 15`
PingDue(c) == now - last_ping[c] > PingInterval

\* _handle_connection from the top of the loop: the next message is taken
\* and, if a dict, sent; then a ping is sent if `due`, which says whether
\* now - last_ping > 15.  With nothing to send the task goes on to
\* `await receive()`; else it is inside `await send(...)` until the send
\* completes.  A send on a closed connection raises, which `except
\* Exception` turns into the end of the task.
HandleConnectionSend(c, due) ==
    /\ server = "sse"
    /\ bgpc[c] = "top"
    /\ due = PingDue(c)
    /\ due => PingsSent(c) < MaxPings
    /\ outq' = [outq EXCEPT ![c] = IF Dequeued(c) THEN Tail(@) ELSE @]
    /\ IF LoopFrames(c, due) = <<>>
       THEN /\ bgpc' = [bgpc EXCEPT ![c] = "recv"]
            /\ UNCHANGED <<wire, last_ping, last_frame>>
       ELSE IF gone[c]
       THEN /\ bgpc' = [bgpc EXCEPT ![c] = "ended"]
            /\ UNCHANGED <<wire, last_ping, last_frame>>
       ELSE /\ bgpc' = [bgpc EXCEPT ![c] = "sending"]
            /\ wire' = [wire EXCEPT ![c] = @ \o LoopFrames(c, due)]
            /\ last_ping' = [last_ping EXCEPT ![c] = IF due THEN now ELSE @]
            /\ last_frame' = [last_frame EXCEPT ![c] = now]
    /\ UNCHANGED <<server, load, now, histVars, transport, registry, issued, cpc, creq,
                   session_id, session_uri, gone, produced, httpEvent, sendq,
                   inbound, postVars>>

\* _handle_connection: the `await send(...)` of the loop completes
HandleConnectionSent(c) ==
    /\ server = "sse"
    /\ bgpc[c] = "sending"
    /\ bgpc' = [bgpc EXCEPT ![c] = "recv"]
    /\ UNCHANGED <<server, load, clockVars, histVars, transport, registry, issued, cpc,
                   creq, session_id, session_uri, gone, wire, outq, produced,
                   httpEvent, sendq, inbound, postVars>>

\* _handle_connection: wait_for(receive(), 0.1), then sleep(0.1).  A
\* disconnect ends the loop; any other ASGI event (the GET's own
\* http.request) is put on reader_queue; a timeout changes nothing.
HandleConnectionReceive(c) ==
    /\ server = "sse"
    /\ bgpc[c] = "recv"
    /\ IF gone[c]
       THEN /\ bgpc' = [bgpc EXCEPT ![c] = "ended"]
            /\ UNCHANGED <<httpEvent, inbound>>
       ELSE /\ bgpc' = [bgpc EXCEPT ![c] = "top"]
            /\ httpEvent' = [httpEvent EXCEPT ![c] = FALSE]
            /\ inbound' = [inbound EXCEPT
                             ![c] = IF httpEvent[c]
                                    THEN Append(@, [kind |-> "event", post |-> 0])
                                    ELSE @]
    /\ UNCHANGED <<server, load, clockVars, histVars, transport, registry, issued, cpc, creq, session_id,
                   session_uri, gone, wire, outq, produced, sendq, postVars>>

\* connect_sse's finally: task.cancel() and await task; a task that has
\* ended stays ended, any other is cancelled where it waits
Cancelled(pos) == IF pos = "ended" THEN "ended" ELSE "cancelled"

\* SseRunReturns leaving the _handle_connection task as it is
SseRunReturnsNoCancel(c) ==
    /\ server = "sse"
    /\ cpc[c] = "running"
    /\ cpc' = [cpc EXCEPT ![c] = "done"]
    /\ UNCHANGED <<server, load, clockVars, histVars, transport, registry, issued, creq, session_id,
                   session_uri, gone, wire, outq, produced, bgpc, httpEvent, sendq,
                   inbound, postVars>>

\* mcp._mcp_server.run returns: connect_sse cleans up, handle_sse ends
SseRunReturns(c) ==
    /\ server = "sse"
    /\ cpc[c] = "running"
    /\ bgpc' = [bgpc EXCEPT ![c] = Cancelled(@)]
    /\ cpc' = [cpc EXCEPT ![c] = "done"]
    /\ UNCHANGED <<server, load, clockVars, histVars, transport, registry, issued, creq, session_id,
                   session_uri, gone, wire, outq, produced, httpEvent, sendq,
                   inbound, postVars>>

\* SseRunRaises leaving the _handle_connection task as it is
SseRunRaisesNoCancel(c) ==
    /\ server = "sse"
    /\ cpc[c] = "running"
    /\ cpc' = [cpc EXCEPT ![c] = "error"]
    /\ raised' = [raised EXCEPT ![c] = "runtime"]
    /\ UNCHANGED <<server, load, clockVars, errors, escaped, transport, registry, issued, creq, session_id,
                   session_uri, gone, wire, outq, produced, bgpc, httpEvent, sendq,
                   inbound, postVars>>

\* mcp._mcp_server.run raises: connect_sse cleans up and the exception
\* reaches handle_sse's except clause
SseRunRaises(c) ==
    /\ server = "sse"
    /\ cpc[c] = "running"
    /\ bgpc' = [bgpc EXCEPT ![c] = Cancelled(@)]
    /\ cpc' = [cpc EXCEPT ![c] = "error"]
    /\ raised' = [raised EXCEPT ![c] = "runtime"]
    /\ UNCHANGED <<server, load, clockVars, errors, escaped, transport, registry, issued, creq, session_id,
                   session_uri, gone, wire, outq, produced, httpEvent, sendq,
                   inbound, postVars>>

\* handle_sse's except clause: one error event is sent; a failure of that
\* send is swallowed
HandleSseError(c) ==
    /\ server = "sse"
    /\ cpc[c] = "error"
    /\ wire' = [wire EXCEPT ![c] = IF gone[c] THEN @ ELSE Append(@, ErrorEvent)]
    /\ cpc' = [cpc EXCEPT ![c] = "done"]
    /\ errors' = [errors EXCEPT ![c] = @ + 1]
    /\ UNCHANGED <<server, load, clockVars, raised, escaped, transport, registry, issued, creq, session_id,
                   session_uri, gone, outq, produced, bgpc, httpEvent, sendq,
                   inbound, postVars>>

\* the handler's task is cancelled while it awaits the runtime (the server
\* shuts down): CancelledError runs connect_sse's finally and, not being an
\* Exception, leaves handle_sse
SseRunCancelled(c) ==
    /\ server = "sse"
    /\ cpc[c] = "running"
    /\ bgpc' = [bgpc EXCEPT ![c] = Cancelled(@)]
    /\ cpc' = [cpc EXCEPT ![c] = "done"]
    /\ raised' = [raised EXCEPT ![c] = "cancel"]
    /\ escaped' = [escaped EXCEPT ![c] = TRUE]
    /\ UNCHANGED <<server, load, clockVars, errors, transport, registry, issued, creq,
                   session_id, session_uri, gone, wire, outq, produced, httpEvent,
                   sendq, inbound, postVars>>

\* the event loop's clock advances
Tick ==
    /\ server = "sse"
    /\ now + TickStep <= load.time
    /\ now' = now + TickStep
    /\ UNCHANGED <<server, load, last_ping, last_frame, histVars, transport, registry,
                   issued, connVars, sendq, inbound, postVars>>

\* SseServerTransport.handle_post_message of message_transport, the
\* transport the /messages/ route is mounted on: 400 without a session_id
\* or with one that is no UUID, 404 for a UUID that transport has no writer
\* for, else 202
SsePostStatus(param) ==
    IF ~param.given THEN 400
    ELSE IF ~UuidParses(param.value) THEN 400
    ELSE IF Lookup(registry, UuidOf(param.value)) = 0 THEN 404
    ELSE 202

SsePostMessage(p, param) ==
    /\ server = "sse"
    /\ NextPost(p)
    /\ preq' = [preq EXCEPT ![p].param = param]
    /\ pinit' = [pinit EXCEPT ![p] = TRUE]
    /\ popen' = [popen EXCEPT ![p] = Addressed(param)]
    /\ pknown' = [pknown EXCEPT ![p] = Known(param)]
    /\ pstatus' = [pstatus EXCEPT ![p] = SsePostStatus(param)]
    /\ ppc' = [ppc EXCEPT ![p] = "done"]
    /\ UNCHANGED <<server, load, clockVars, histVars, transport, registry, issued, connVars, sendq,
                   inbound, pwriter>>

SseNext ==
    \/ \E c \in Conns, r \in SseRequests : HandleSse(c, r)
    \/ \E c \in Conns : ConnectSseStart(c)
    \/ \E c \in Conns : ConnectSseEndpoint(c)
    \/ \E c \in Conns : ConnectSsePing(c)
    \/ \E c \in Conns : ConnectSseRaises(c)
    \/ \E c \in Conns, due \in BOOLEAN : HandleConnectionSend(c, due)
    \/ \E c \in Conns : HandleConnectionSent(c)
    \/ \E c \in Conns : HandleConnectionReceive(c)
    \/ \E c \in Conns : HandleSseError(c)
    \/ \E c \in Conns : SseRunCancelled(c)
    \/ Tick
    \/ \E p \in Posts, param \in PostParams : SsePostMessage(p, param)

\* what the protocol runtime does in the SSE variant
SseRuntimeNext ==
    \/ \E c \in Conns, kind \in RuntimeMessages : RuntimeSend(c, kind)
    \/ \E c \in Conns : SseRunReturns(c)
    \/ \E c \in Conns : SseRunRaises(c)

Next ==
    \/ HttpNext
    \/ SseNext
    \/ SseRuntimeNext
    \/ \E c \in Conns : ClientDisconnect(c)

Spec == Init /\ [][Next]_vars

(* --------------------- the SSE application alone ---------------------- *)
SseInit ==
    /\ server = "sse"
    /\ load \in Workloads("sse")
    /\ Created

SseAppNext ==
    \/ SseNext
    \/ SseRuntimeNext
    \/ \E c \in Conns : ClientDisconnect(c)

SseSpec == SseInit /\ [][SseAppNext]_vars

(* ------------------- the NDJSON application alone --------------------- *)
HttpInit ==
    /\ server = "http"
    /\ load \in Workloads("http")
    /\ Created

HttpAppNext ==
    \/ HttpNext
    \/ \E c \in Conns : ClientDisconnect(c)

\* the steps the event loop runs as soon as they can run: a handler goes on
\* after an await that has completed.  The arrival of requests, the client's
\* disconnect and what the protocol runtime does are left to the environment.
HttpSpec == HttpInit /\ [][HttpAppNext]_vars

StreamStep(c) ==
    \/ ResponseStart(c)
    \/ IterContent(c)
    \/ ResponseDisconnected(c)
    \/ ResponseRaises(c)

PostStep(p) ==
    \/ \E body \in PostBodies : PostBody(p, body)
    \/ PostAccepted(p)

\* one stream request and one POST, under the event loop's fairness
FairHttpInit ==
    /\ server = "http"
    /\ load = Workload(1, 1, 0, 0)
    /\ Created

FairHttpSpec ==
    /\ FairHttpInit
    /\ [][HttpAppNext]_vars
    /\ \A c \in Conns : WF_vars(StreamStep(c))
    /\ \A p \in Posts : WF_vars(PostStep(p))


(* ============================== claims ================================ *)

\* the registry holds the writer of connection c
Registered(c) == \E u \in DOMAIN registry : registry[u] = c

\* the message of POST p has reached, or is parked at, the channel of c
Forwarded(p, c) ==
    \/ \E i \in 1..Len(inbound[c]) :
          inbound[c][i].kind = "message" /\ inbound[c][i].post = p
    \/ \E i \in 1..Len(sendq[c]) : sendq[c][i] = p

\* the message of POST p has been received on the inbound channel of c
Delivered(p, c) ==
    \E i \in 1..Len(inbound[c]) :
       inbound[c][i].kind = "message" /\ inbound[c][i].post = p

Answered(p) == ppc[p] = "done"

(* C1: on every connection, of either variant, the first body frame written
   is the handshake carrying that connection's reply-to URL; no keepalive,
   application or error frame is written before it. *)
C1_HandshakeFirst ==
    \A c \in Conns :
       wire[c] # <<>> =>
          /\ wire[c][1].kind = "endpoint"
          /\ wire[c][1].data = session_uri[c]

\* an SSE connection that has written its handshake, its ping and an error frame
C1_Witness ==
    \E c \in Conns :
       /\ server = "sse"
       /\ Len(wire[c]) >= 3
       /\ wire[c][Len(wire[c])].kind = "error"

(* C2: a well-formed message POSTed with the session id of a currently open
   stream connection is answered 204 and appears on the inbound channel of
   that session and of no other. *)
C2_OpenSessionPostDelivered ==
    \A p \in Posts :
       (Answered(p) /\ popen[p] # {} /\ preq[p].body # "not_json") =>
          /\ pstatus[p] = 204
          /\ \A c \in Conns : Delivered(p, c) <=> c \in popen[p]

(* C3: while a connection is open (its handshake written), the registry the
   POST route reads maps the session id of the handshake URL to that
   connection's inbound channel, and no POST that addresses an open
   connection is answered 404. *)
C3_RegisteredBeforeHandshake ==
    /\ \A c \in Conns :
          StreamOpen(c) =>
             /\ UuidParses(session_uri[c].session_id)
             /\ Lookup(registry, UuidOf(session_uri[c].session_id)) = c
    /\ \A p \in Posts : (Answered(p) /\ popen[p] # {}) => pstatus[p] # 404

(* C4: once a connection's handler has finished, however its streaming phase
   ended, the registry no longer holds that connection's session. *)
C4_UnregisteredWhenFinished ==
    \A c \in Conns : cpc[c] = "done" => ~Registered(c)

(* C5: after the client of a connection has disconnected, the session is
   eventually removed from the registry, with no further POST and no action
   of the protocol runtime needed, and a POST to an id that is not
   registered is answered 404. *)
C5_DisconnectLeadsToRemoval ==
    /\ \A c \in Conns : (gone[c] /\ Registered(c)) ~> ~Registered(c)
    /\ [](\A p \in Posts :
             (Answered(p) /\ pinit[p] /\ preq[p].param.given
                /\ UuidParses(preq[p].param.value) /\ ~pknown[p]) =>
                pstatus[p] = 404)

(* C6: every POST to a registered session is eventually answered, even if
   the protocol runtime never reads from the session's inbound channel. *)
C6_PostAlwaysAnswered ==
    \A p \in Posts : (ppc[p] # "idle" /\ pknown[p]) ~> Answered(p)

(* C7: once the transport is initialised, a POST whose session_id is given
   and not registered is answered 404 and reaches no inbound channel; this
   includes a short hex string such as deadbeef. *)
C7_UnknownSessionIs404 ==
    \A p \in Posts :
       (Answered(p) /\ pinit[p] /\ preq[p].param.given
          /\ preq[p].param.value # <<>> /\ ~pknown[p]) =>
          /\ pstatus[p] = 404
          /\ \A c \in Conns : ~Forwarded(p, c)

(* C8: a POST whose session_id is missing, empty or not a syntactically
   valid id is answered 400 and nothing else is done. *)
C8_BadSessionIdIs400 ==
    \A p \in Posts :
       (Answered(p) /\ pinit[p]
          /\ (\/ ~preq[p].param.given
              \/ preq[p].param.value = <<>>
              \/ ~UuidParses(preq[p].param.value))) =>
          /\ pstatus[p] = 400
          /\ pwriter[p] = 0
          /\ \A c \in Conns : ~Forwarded(p, c)

(* C9: a POST to a registered session whose body does not decode as one
   protocol message is answered 400 and nothing is forwarded. *)
C9_BadBodyIs400 ==
    \A p \in Posts :
       (Answered(p) /\ pknown[p] /\ preq[p].body = "not_json") =>
          /\ pstatus[p] = 400
          /\ \A c \in Conns : ~Forwarded(p, c)

\* a stream request has been handled
StreamHandled == \E c \in Conns : cpc[c] # "idle"

(* C10: in the NDJSON application a POST is answered 503 exactly when no
   stream request had initialised the transport when it was dispatched; the
   transport is initialised from the first stream request on and stays so,
   and from then on a POST whose session id is a well-formed id that is not
   registered is answered 404. *)
C10_NotReadyIs503 ==
    /\ StreamHandled <=> transport # <<>>
    /\ \A p \in Posts :
          ppc[p] # "idle" =>
             /\ pstatus[p] = 503 <=> ~pinit[p]
             /\ (pinit[p] /\ preq[p].param.given
                   /\ UuidParses(preq[p].param.value) /\ ~pknown[p]) =>
                   (Answered(p) /\ pstatus[p] = 404)

\* a POST answered 503, then a stream request, then a POST answered 404
C10_Witness ==
    \E p, q \in Posts :
       /\ pstatus[p] = 503
       /\ pstatus[q] = 404
       /\ pinit[q]

(* C11: no two open stream connections announce the same session id in
   their handshake URL, and the registry entry of a connection whose handler
   has not finished is never replaced by another connection's. *)
C11_SessionIdsDistinct ==
    /\ \A c, d \in Conns :
          (c # d /\ StreamOpen(c) /\ StreamOpen(d)) =>
             session_uri[c].session_id # session_uri[d].session_id
    /\ \A c \in Conns :
          (cpc[c] \notin {"idle", "done"} /\ session_id[c] # 0) =>
             Lookup(registry, session_id[c]) = c

(* C12: the reply-to URL of each connection's handshake carries the scheme
   (the forwarded scheme when the header is present) and the host of that
   connection's own stream request. *)
C12_UrlFromOwnRequest ==
    \A c \in Conns :
       (wire[c] # <<>> /\ wire[c][1].kind = "endpoint") =>
          /\ wire[c][1].data.endpoint.host = creq[c].host
          /\ wire[c][1].data.endpoint.scheme =
                (IF creq[c].xfp = "none" THEN creq[c].scheme ELSE creq[c].xfp)

\* the application frames of connection c that encode runtime message n
FramesOf(c, n) ==
    { i \in 1..Len(wire[c]) : wire[c][i].kind = "message" /\ wire[c][i].msg = n }

\* runtime message n is still on the outbound channel of c
Queued(c, n) == \E i \in 1..Len(outq[c]) : outq[c][i].n = n

(* C13: while a connection is open, every message the runtime has put on its
   outbound channel is either still on the channel or written to the wire as
   exactly one frame: none is dequeued and discarded. *)
C13_EveryMessageWritten ==
    \A c \in Conns :
       StreamOpen(c) =>
          \A n \in 1..produced[c] :
             /\ Queued(c, n) \/ FramesOf(c, n) # {}
             /\ Cardinality(FramesOf(c, n)) <= 1

\* the POSTs whose messages were placed on the inbound channel of c, in the
\* order they were placed: those received, then those parked in send
ChannelPosts(c) ==
    [i \in 1..Len(inbound[c]) |-> inbound[c][i].post] \o sendq[c]

(* C14: the messages of one session are placed on its inbound channel in the
   order their POSTs arrived (POSTs are numbered in arrival order), whatever
   the interleaving of the POST handlers. *)
C14_ArrivalOrder ==
    \A c \in Conns :
       \A i, j \in 1..Len(ChannelPosts(c)) :
          i < j => ChannelPosts(c)[i] < ChannelPosts(c)[j]

(* C20: everything placed on a session's inbound channel is a decoded message
   of a POST; no event of the GET stream request itself is forwarded to the
   runtime. *)
C20_OnlyPostedMessagesInbound ==
    \A c \in Conns :
       \A i \in 1..Len(inbound[c]) :
          /\ inbound[c][i].kind = "message"
          /\ inbound[c][i].post \in Posts

IsMessageFrame(f) == f.kind = "message"

\* the application frames written to connection c, in wire order
MessageFrames(c) == SelectSeq(wire[c], IsMessageFrame)

(* C15: the application frames on a connection's wire encode runtime messages
   in the order the runtime produced them (messages are numbered in that
   order): an order-preserving subsequence, nothing reordered or written
   twice. *)
C15_WrittenInProducedOrder ==
    \A c \in Conns :
       /\ \A i \in 1..Len(MessageFrames(c)) :
             MessageFrames(c)[i].msg \in 1..produced[c]
       /\ \A i, j \in 1..Len(MessageFrames(c)) :
             i < j => MessageFrames(c)[i].msg < MessageFrames(c)[j].msg

\* a connection on which two application frames have been written
C15_Witness == \E c \in Conns : Len(MessageFrames(c)) >= 2

\* the positions of the error frames on the wire of c
ErrorFrames(c) == { i \in 1..Len(wire[c]) : wire[c][i].kind = "error" }

(* C16: when the protocol runtime has raised and the connection's handler has
   finished, the handler has tried exactly once to send an error frame, no
   exception has left the handler, and an error frame that was written is the
   last frame of the connection. *)
C16_RuntimeErrorReported ==
    \A c \in Conns :
       (raised[c] = "runtime" /\ cpc[c] = "done") =>
          /\ errors[c] = 1
          /\ ~escaped[c]
          /\ \A i \in ErrorFrames(c) : i = Len(wire[c])

\* the handler coroutine of c is inside one of its `await send(...)`:
\* connect_sse's three sends or the error send of handle_sse
HandlerSending(c) ==
    /\ server = "sse"
    /\ cpc[c] \in {"start", "handshake", "ping", "error"}

\* the _handle_connection task of c is inside an `await send(...)`
TaskSending(c) == bgpc[c] = "sending"

(* C17: on no connection are the handler (connect_sse's handshake and initial
   ping, handle_sse's error frame) and the background streaming loop inside a
   send at the same time. *)
C17_SingleWriter ==
    \A c \in Conns : ~(HandlerSending(c) /\ TaskSending(c))

\* the runtime raised after the loop had written an application frame: the
\* task was cancelled and the handler is about to send the error frame
C17_Witness ==
    \E c \in Conns :
       /\ cpc[c] = "error"
       /\ raised[c] = "runtime"
       /\ bgpc[c] = "cancelled"
       /\ MessageFrames(c) # <<>>

\* the connect_sse context of c has been left
ContextExited(c) ==
    /\ server = "sse"
    /\ cpc[c] \in {"error", "done"}

\* the _handle_connection task of c exists and has not ended
TaskRunning(c) == bgpc[c] \in {"top", "sending", "recv"}

(* C18: once the connect_sse context of a connection has been left (the
   runtime returned, raised, or the handler was cancelled) its background
   task is no longer running, and the only frame still written on the
   connection is the handler's error frame. *)
C18_TaskEndsWithConnection ==
    /\ [](\A c \in Conns : ContextExited(c) => ~TaskRunning(c))
    /\ [][\A c \in Conns :
            ContextExited(c) =>
               \/ wire'[c] = wire[c]
               \/ wire'[c] = Append(wire[c], ErrorEvent)]_vars

\* the runtime returned while the loop was running: the task was cancelled
C18_Witness ==
    \E c \in Conns :
       /\ cpc[c] = "done"
       /\ raised[c] = "none"
       /\ bgpc[c] = "cancelled"
       /\ MessageFrames(c) # <<>>

\* this step of the streaming loop writes a keepalive frame on c
LoopPingWritten(c) ==
    /\ bgpc[c] = "top"
    /\ wire'[c] # wire[c]
    /\ wire'[c][Len(wire'[c])].kind = "ping"

(* C19: the streaming loop writes a keepalive frame only when the connection
   has been idle: no application frame is written in the same pass, and the
   last application or keepalive frame was written at least the keepalive
   interval (15 seconds) before. *)
C19_KeepaliveOnlyWhenIdle ==
    [][\A c \in Conns :
          LoopPingWritten(c) =>
             /\ Len(wire'[c]) = Len(wire[c]) + 1
             /\ now - last_frame[c] >= PingInterval]_vars

=============================================================================
